---- MODULE Spec2Model ----
(***************************************************************************)
(* Model of dbt/check_dbt_descriptions.py: the collector that walks the   *)
(* parsed documents, the reconciler that picks a canonical description    *)
(* per column name, and the patcher that re-locates a column in the raw   *)
(* text lines by indentation-aware scanning and rewrites or inserts its   *)
(* description line.                                                       *)
(*                                                                         *)
(* Text.  A Python string is a sequence of one-character strings.  A raw  *)
(* text line is a record                                                   *)
(*    [ind, dash, key, val]                                                *)
(* standing for  <ind spaces> ["- "] key ":" [" " val] "\n" ; a blank     *)
(* line has key "" and a comment-only line has key "#".  Python indices   *)
(* are 0-based, sequences here are 1-based: index i of the code is index  *)
(* i+1 here, and "not found" stays -1.                                     *)
(***************************************************************************)
EXTENDS Integers, Sequences, FiniteSets, TLC

VARIABLES
    disk,               \* file path (1..NFiles, discovery order) -> text lines
    fix_mode,           \* check_and_fix's fix_mode argument
    pc,                 \* position of the run
    run,                \* 1 for the first run of check_and_fix, 2 for the next
    fi,                 \* index of the next file of the collection loop
    col_map,            \* occurrences in insertion order (col_map of the code)
    failed,             \* files whose load or walk raised (reported by line 210)
    fixes_by_file,      \* insertion-ordered <<[file, fixes]>>
    inconsistent_count, \* line 214
    best,               \* insertion-ordered <<[col, best_desc]>> as reported
    cur,                \* update_file: file_path
    fixes,              \* update_file: the fixes not yet attempted
    lines,              \* update_file: the line buffer
    modified,           \* update_file: modified
    last,               \* what the latest iteration of the fix loop did
    nOk,                \* number of fixes of the batch whose lookups all succeeded
    written,            \* files written by update_file
    ui,                 \* index of the next entry of fixes_by_file to apply
    tried,              \* number of fixes of the batch attempted so far
    scan,               \* one call of find_child_block: arguments and result
    esc                 \* one description written and read back

vars == <<disk, fix_mode, pc, run, fi, col_map, failed, fixes_by_file,
          inconsistent_count, best, cur, fixes, lines, modified, last, nOk,
          written, ui, tried, scan, esc>>

-----------------------------------------------------------------------------
(* Characters and Python values *)

DQ == "\""
SQ == "'"
BS == "\\"
LF == "LF"

\* Python's None, as a value comparable with strings
None == <<"None">>

\* a scalar the loader rejects
ScalarError == <<"Error">>

\* truthiness of a str-or-None value
Truthy(v) == v # None /\ v # <<>>

RECURSIVE Escape(_)
\* s.replace('"', '\\"')
Escape(s) ==
    IF s = <<>> THEN <<>>
    ELSE IF Head(s) = DQ THEN <<BS, DQ>> \o Escape(Tail(s))
    ELSE <<Head(s)>> \o Escape(Tail(s))

\* new_desc_str = f'"{escaped_desc}"'
QuoteDesc(new_desc) == <<DQ>> \o Escape(new_desc) \o <<DQ>>

\* the quote removal of find_child_block
Unquote(val) ==
    IF Len(val) >= 1
       /\ \/ Head(val) = DQ /\ val[Len(val)] = DQ
          \/ Head(val) = SQ /\ val[Len(val)] = SQ
    THEN SubSeq(val, 2, Len(val) - 1)
    ELSE val

-----------------------------------------------------------------------------
(* Lines *)

KeyLine(i, k) == [ind |-> i, dash |-> FALSE, key |-> k, val |-> <<>>]
KV(i, k, v) == [ind |-> i, dash |-> FALSE, key |-> k, val |-> v]
Item(i, k, v) == [ind |-> i, dash |-> TRUE, key |-> k, val |-> v]
Blank == [ind |-> 0, dash |-> FALSE, key |-> "", val |-> <<>>]
Comment(i) == [ind |-> i, dash |-> FALSE, key |-> "#", val |-> <<>>]

\* len(line) - len(line.lstrip()): lstrip takes the newline of a blank line too
get_indent(line) == IF line.key = "" THEN line.ind + 1 ELSE line.ind

\* not stripped or stripped.startswith('#')
Skipped(line) == line.key \in {"", "#"}

\* stripped.startswith(f"{key}:")
StartsWithKey(line, key) == ~line.dash /\ line.key = key

\* stripped.startswith("- name:")
IsNameItem(line) == line.dash /\ line.key = "name"

RECURSIVE ScanFrom(_, _, _, _, _)
\* the loop with "<" for "<=" in the test that ends the block
ScanStrictBoundary(ls, i, parent_indent, key, name) ==
    IF i > Len(ls) THEN -1
    ELSE IF Skipped(ls[i]) THEN ScanFrom(ls, i + 1, parent_indent, key, name)
    ELSE IF get_indent(ls[i]) < parent_indent THEN -1
    ELSE IF key # "" /\ StartsWithKey(ls[i], key) THEN i
    ELSE IF Truthy(name) /\ IsNameItem(ls[i]) /\ Unquote(ls[i].val) = name THEN i
    ELSE ScanFrom(ls, i + 1, parent_indent, key, name)

\* the loop of find_child_block from index i on
ScanFrom(ls, i, parent_indent, key, name) ==
    IF i > Len(ls) THEN -1
    ELSE IF Skipped(ls[i]) THEN ScanFrom(ls, i + 1, parent_indent, key, name)
    ELSE IF get_indent(ls[i]) <= parent_indent THEN -1
    ELSE IF key # "" /\ StartsWithKey(ls[i], key) THEN i
    ELSE IF Truthy(name) /\ IsNameItem(ls[i]) /\ Unquote(ls[i].val) = name THEN i
    ELSE ScanFrom(ls, i + 1, parent_indent, key, name)

\* key "" stands for key=None, name None for name=None
find_child_block(ls, parent_idx, key, name) ==
    IF parent_idx > Len(ls) THEN -1
    ELSE ScanFrom(ls, parent_idx + 1, get_indent(ls[parent_idx]), key, name)

-----------------------------------------------------------------------------
(* Scalars as yaml.safe_load reads them *)

RECURSIVE DecodeDQ(_, _)
\* the text of a double-quoted scalar from index i on (after the opening
\* quote): the closing quote must end the value, a backslash takes the
\* next character as an escape
DecodeDQ(v, i) ==
    IF i > Len(v) THEN ScalarError
    ELSE IF v[i] = DQ THEN (IF i = Len(v) THEN <<>> ELSE ScalarError)
    ELSE IF v[i] = BS THEN
        IF i + 1 > Len(v) THEN ScalarError
        ELSE LET e == v[i + 1]
                 rest == DecodeDQ(v, i + 2)
                 c == IF e = "n" THEN LF ELSE e
             IN  IF e \notin {DQ, BS, "n"} \/ rest = ScalarError
                 THEN ScalarError
                 ELSE <<c>> \o rest
    ELSE LET rest == DecodeDQ(v, i + 1)
         IN  IF rest = ScalarError THEN ScalarError ELSE <<v[i]>> \o rest

\* a single-quoted scalar (the doubled-quote escape is not generated)
DecodeSQ(v) ==
    IF Len(v) >= 2 /\ v[Len(v)] = SQ
       /\ \A i \in 2..(Len(v) - 1) : v[i] # SQ
    THEN SubSeq(v, 2, Len(v) - 1)
    ELSE ScalarError

\* the Python value of the scalar text val: None, a str, or ScalarError
ScalarOf(val) ==
    IF val = <<>> THEN None
    ELSE IF Head(val) = DQ THEN DecodeDQ(val, 2)
    ELSE IF Head(val) = SQ THEN DecodeSQ(val)
    ELSE val

-----------------------------------------------------------------------------
(* The tree yaml.safe_load builds from block-style lines.  A mapping whose *)
(* keys stand at column m runs from its first key line to the first line   *)
(* indented less than m; a "- " item at indentation s opens a mapping at   *)
(* column s + 2; a key without a value owns the lines up to the next key   *)
(* of its mapping, a sequence if the first of them is a "- " item.         *)

Min(S) == CHOOSE x \in S : \A y \in S : x <= y
Max(S) == CHOOSE x \in S : \A y \in S : x >= y

RECURSIVE SortedSeq(_)
SortedSeq(S) == IF S = {} THEN <<>> ELSE <<Min(S)>> \o SortedSeq(S \ {Min(S)})

KCol(line) == line.ind + (IF line.dash THEN 2 ELSE 0)

Sig(L) == {t \in 1..Len(L) : ~Skipped(L[t])}

MapEnd(L, j, m) == Min({t \in Sig(L) : t > j /\ L[t].ind < m} \cup {Len(L) + 1})

MapKeys(L, j, m) ==
    LET e == MapEnd(L, j, m)
    IN  {t \in Sig(L) : t >= j /\ t < e /\ KCol(L[t]) = m}

\* the line of key in the mapping (the last one wins), 0 when absent
Get(L, j, m, key) ==
    LET S == {t \in MapKeys(L, j, m) : L[t].key = key}
    IN  IF S = {} THEN 0 ELSE Max(S)

ChildEnd(L, k, m) ==
    Min({t \in Sig(L) : t > k /\ (L[t].ind < m \/ KCol(L[t]) = m)} \cup {Len(L) + 1})

Children(L, k, m) ==
    LET e == ChildEnd(L, k, m)
    IN  {t \in Sig(L) : t > k /\ t < e}

ValueKind(L, k, m) ==
    LET C == Children(L, k, m)
    IN  IF L[k].val # <<>> THEN "scalar"
        ELSE IF C = {} THEN "null"
        ELSE IF L[Min(C)].dash THEN "seq"
        ELSE "map"

\* the first lines of the items of the sequence under key line k
SeqItems(L, k, m) ==
    LET C == Children(L, k, m)
        s == L[Min(C)].ind
    IN  SortedSeq({t \in C : L[t].dash /\ L[t].ind = s})

\* node.get(key) of the mapping opened by item line t, for a scalar key
GetScalar(L, t, key) ==
    LET g == Get(L, t, L[t].ind + 2, key)
    IN  IF g = 0 THEN None ELSE ScalarOf(L[g].val)

\* yaml.safe_load raises
LoadError(L) == \E t \in Sig(L) : ScalarOf(L[t].val) = ScalarError

-----------------------------------------------------------------------------
(* The walk of check_and_fix over one loaded document.  A result is the    *)
(* occurrences appended to col_map and whether the walk raised.            *)

\* item is not a field of the code's record: it is the line on which the
\* column's node starts in the text the loader read
Occ(col, desc, file, type, parent, table, item) ==
    [col |-> col, desc |-> desc, file |-> file, type |-> type,
     parent |-> parent, table |-> table, item |-> item]

\* col.get('description') or ''
OrEmpty(d) == IF Truthy(d) THEN d ELSE <<>>

\* the loop over the columns under key line k: columns without a name are skipped
ColumnOccs(L, file, type, parent, table, k, m) ==
    LET items == SeqItems(L, k, m)
        all == [i \in 1..Len(items) |->
                  Occ(GetScalar(L, items[i], "name"),
                      OrEmpty(GetScalar(L, items[i], "description")),
                      file, type, parent, table, items[i])]
    IN  SelectSeq(all, LAMBDA o : Truthy(o.col))

\* for col in owner.get('columns', []): iterating anything but a list raises
OwnerResult(L, file, type, parent, table, t) ==
    LET m == L[t].ind + 2
        k == Get(L, t, m, "columns")
    IN  IF k = 0 THEN [occs |-> <<>>, err |-> FALSE]
        ELSE IF ValueKind(L, k, m) = "seq"
        THEN [occs |-> ColumnOccs(L, file, type, parent, table, k, m), err |-> FALSE]
        ELSE [occs |-> <<>>, err |-> TRUE]

RECURSIVE Chain(_, _)
\* results in sequence: what follows the first one that raised is not run
Chain(rs, i) ==
    IF i > Len(rs) THEN [occs |-> <<>>, err |-> FALSE]
    ELSE IF rs[i].err THEN [occs |-> rs[i].occs, err |-> TRUE]
    ELSE LET rest == Chain(rs, i + 1)
         IN  [occs |-> rs[i].occs \o rest.occs, err |-> rest.err]

\* the body of "for source in data['sources']"
SourceResult(L, file, t) ==
    LET m == L[t].ind + 2
        s_name == GetScalar(L, t, "name")
        k == Get(L, t, m, "tables")
    IN  IF k = 0 THEN [occs |-> <<>>, err |-> FALSE]
        ELSE IF ValueKind(L, k, m) # "seq" THEN [occs |-> <<>>, err |-> TRUE]
        ELSE LET tabs == SeqItems(L, k, m)
             IN  Chain([i \in 1..Len(tabs) |->
                          OwnerResult(L, file, "source", s_name,
                                      GetScalar(L, tabs[i], "name"), tabs[i])], 1)

\* "if 'models' in data: ..." and "if 'sources' in data: ..."
SectionResult(L, file, key) ==
    LET j == Min(Sig(L))
        m == L[j].ind
        k == Get(L, j, m, key)
    IN  IF k = 0 THEN [occs |-> <<>>, err |-> FALSE]
        ELSE IF ValueKind(L, k, m) # "seq" THEN [occs |-> <<>>, err |-> TRUE]
        ELSE LET es == SeqItems(L, k, m)
             IN  Chain([i \in 1..Len(es) |->
                          IF key = "models"
                          THEN OwnerResult(L, file, "model",
                                           GetScalar(L, es[i], "name"), None, es[i])
                          ELSE SourceResult(L, file, es[i])], 1)

\* the walk of a loaded document: models, then sources
WalkTree(L, file) ==
    IF Sig(L) = {} THEN [occs |-> <<>>, err |-> FALSE]
    ELSE Chain(<<SectionResult(L, file, "models"),
                 SectionResult(L, file, "sources")>>, 1)

\* the try block for one file: load, then walk
Walk(L, file) ==
    IF LoadError(L) THEN [occs |-> <<>>, err |-> TRUE]
    ELSE WalkTree(L, file)

-----------------------------------------------------------------------------
(* update_file: one iteration of "for fix in fixes" *)

Fix(type, parent, table, col, new_desc) ==
    [type |-> type, parent |-> parent, table |-> table, col |-> col,
     new_desc |-> new_desc]

\* the first line whose stripped text starts with "<root_key>:", or -1
RootIdx(ls, root_key) ==
    LET S == {i \in 1..Len(ls) : StartsWithKey(ls[i], root_key)}
    IN  IF S = {} THEN -1 ELSE Min(S)

\* steps 3 to 5 from the entry line current_idx on: the column's line or -1
ColumnUnder(ls, current_idx, col) ==
    LET cols_idx == find_child_block(ls, current_idx, "columns", None)
    IN  IF cols_idx = -1 THEN -1
        ELSE find_child_block(ls, cols_idx, "", col)

\* steps 1 to 5: the index of the column's name line, -1 on a lookup miss
Locate(ls, fix) ==
    LET root_idx == RootIdx(ls, IF fix.type = "model" THEN "models" ELSE "sources")
        parent_idx == find_child_block(ls, root_idx, "", fix.parent)
        tables_idx == find_child_block(ls, parent_idx, "tables", None)
        table_idx == find_child_block(ls, tables_idx, "", fix.table)
    IN  IF root_idx = -1 THEN -1
        ELSE IF parent_idx = -1 THEN -1
        ELSE IF fix.type # "source" THEN ColumnUnder(ls, parent_idx, fix.col)
        ELSE IF tables_idx = -1 THEN -1
        ELSE IF table_idx = -1 THEN -1
        ELSE ColumnUnder(ls, table_idx, fix.col)

\* lines[desc_idx] = f"{key_part}: {new_desc_str}\n"
ReplaceLine(line, new_desc_str) == [line EXCEPT !.val = new_desc_str]

\* the new line stored over the line after the column's name line
InsertOverwrites(ls, col_idx, new_desc_str) ==
    SubSeq(ls, 1, col_idx)
    \o <<KV(get_indent(ls[col_idx]) + 2, "description", new_desc_str)>>
    \o SubSeq(ls, col_idx + 2, Len(ls))

\* the new line at the indentation of the column's name line
InsertSameIndent(ls, col_idx, new_desc_str) ==
    SubSeq(ls, 1, col_idx)
    \o <<KV(get_indent(ls[col_idx]), "description", new_desc_str)>>
    \o SubSeq(ls, col_idx + 1, Len(ls))

\* lines.insert(col_idx + 1, f"{prefix}description: {new_desc_str}\n")
InsertDescription(ls, col_idx, new_desc_str) ==
    SubSeq(ls, 1, col_idx)
    \o <<KV(get_indent(ls[col_idx]) + 2, "description", new_desc_str)>>
    \o SubSeq(ls, col_idx + 1, Len(ls))

\* the body of the loop: the buffer after the fix and what was done
FixResult(ls, fix) ==
    LET col_idx == Locate(ls, fix)
        desc_idx == find_child_block(ls, col_idx, "description", None)
        new_desc_str == QuoteDesc(fix.new_desc)
    IN  IF col_idx = -1
        THEN [lines |-> ls, op |-> "miss", col_idx |-> -1, at |-> -1]
        ELSE IF desc_idx # -1
        THEN [lines |-> [ls EXCEPT ![desc_idx] = ReplaceLine(@, new_desc_str)],
              op |-> "replace", col_idx |-> col_idx, at |-> desc_idx]
        ELSE [lines |-> InsertDescription(ls, col_idx, new_desc_str),
              op |-> "insert", col_idx |-> col_idx, at |-> col_idx + 1]

-----------------------------------------------------------------------------
(* check_and_fix: the analysis of col_map.  col_map is kept as the flat    *)
(* sequence of occurrences in insertion order; a dict of the code lists    *)
(* its keys in the order of their first insertion.                         *)

RECURSIVE Dedup(_)
\* the distinct elements in order of first appearance
Dedup(q) ==
    IF q = <<>> THEN <<>>
    ELSE <<Head(q)>> \o Dedup(SelectSeq(Tail(q), LAMBDA x : x # Head(q)))

RECURSIVE Flatten(_)
Flatten(qq) == IF qq = <<>> THEN <<>> ELSE Head(qq) \o Flatten(Tail(qq))

\* col_map.keys()
ColKeys(cm) == Dedup([i \in 1..Len(cm) |-> cm[i].col])

\* col_map[col][desc]
Locs(cm, col, desc) == SelectSeq(cm, LAMBDA o : o.col = col /\ o.desc = desc)

\* col_map[col].keys()
DescKeys(cm, col) ==
    LET mine == SelectSeq(cm, LAMBDA o : o.col = col)
    IN  Dedup([i \in 1..Len(mine) |-> mine[i].desc])

\* non_empty_descs.keys()
NonEmptyDescs(cm, col) == SelectSeq(DescKeys(cm, col), LAMBDA d : d # <<>>)

RECURSIVE SortedByUses(_, _, _)
\* sorted(..., key=lambda x: len(x[1]), reverse=True): stable, so equal
\* counts keep their insertion order
SortedByUses(cm, col, ds) ==
    IF ds = <<>> THEN <<>>
    ELSE LET n(d) == Len(Locs(cm, col, d))
             top == CHOOSE i \in 1..Len(ds) :
                       /\ \A j \in 1..Len(ds) : n(ds[j]) <= n(ds[i])
                       /\ \A j \in 1..(i - 1) : n(ds[j]) < n(ds[i])
         IN  <<ds[top]>> \o SortedByUses(cm, col,
                 SubSeq(ds, 1, top - 1) \o SubSeq(ds, top + 1, Len(ds)))

\* the first non-empty description met, whatever its number of uses
BestDescFirstSeen(cm, col) == NonEmptyDescs(cm, col)[1]

\* sorted_descs[0][0]
BestDesc(cm, col) == SortedByUses(cm, col, NonEmptyDescs(cm, col))[1]

\* "if not non_empty_descs: continue" and "if len(desc_dict) > 1"
Inconsistent(cm, col) ==
    NonEmptyDescs(cm, col) # <<>> /\ Len(DescKeys(cm, col)) > 1

\* the occurrences without description left alone
VictimsNonEmpty(cm, col) ==
    LET best_desc == BestDesc(cm, col)
    IN  SelectSeq(DescKeys(cm, col), LAMBDA d : d # best_desc /\ d # <<>>)

\* the descriptions whose occurrences become fixes
Victims(cm, col) ==
    LET best_desc == BestDesc(cm, col)
    IN  SelectSeq(DescKeys(cm, col), LAMBDA d : d # best_desc)

\* the fixes of one column, each with its file, in the order appended
ColumnFixes(cm, col) ==
    LET ds == Victims(cm, col)
        best_desc == BestDesc(cm, col)
    IN  Flatten([i \in 1..Len(ds) |->
           LET os == Locs(cm, col, ds[i])
           IN  [j \in 1..Len(os) |->
                  [file |-> os[j].file,
                   fix |-> Fix(os[j].type, os[j].parent, os[j].table, col,
                               best_desc)]]])

\* every fix appended by the loop over col_map, in order
AllFixes(cm, mode) ==
    LET cs == SelectSeq(ColKeys(cm), LAMBDA c : Inconsistent(cm, c))
    IN  IF mode THEN Flatten([i \in 1..Len(cs) |-> ColumnFixes(cm, cs[i])])
        ELSE <<>>

\* fixes_by_file after the loop
FixesByFile(cm, mode) ==
    LET all == AllFixes(cm, mode)
        fs == Dedup([i \in 1..Len(all) |-> all[i].file])
    IN  [i \in 1..Len(fs) |->
           LET mine == SelectSeq(all, LAMBDA x : x.file = fs[i])
           IN  [file |-> fs[i], fixes |-> [j \in 1..Len(mine) |-> mine[j].fix]]]

\* the "Best description" report lines
BestReport(cm) ==
    LET cs == SelectSeq(ColKeys(cm), LAMBDA c : Inconsistent(cm, c))
    IN  [i \in 1..Len(cs) |-> [col |-> cs[i], best_desc |-> BestDesc(cm, cs[i])]]

-----------------------------------------------------------------------------
(* Bounds *)

NFiles == 2
MaxEntries == 2
MaxCols == 2
MaxFixes == 2
MaxDescLen == 3
MaxScanLen == 3
MaxScanInd == 1

-----------------------------------------------------------------------------------------------------------------------------------------------------
(* Documents of the consumed shape, as text.  Names are a and b (b is      *)
(* written double-quoted).  A layout gives the indentation e of the        *)
(* entries under the top key, the indentation z of a nested sequence       *)
(* relative to its key (0: at the key's own column, which block YAML       *)
(* allows), and whether a comment and a blank line follow the first line   *)
(* of every column.                                                        *)

Names == {<<"a">>, <<"b">>}

\* two names told apart by the loader only: the name \ written "\\" and
\* the name \\ written plain
EscNames == {<<BS>>, <<BS, BS>>}

NameText(n) ==
    IF n = <<"b">> THEN <<DQ, "b", DQ>>
    ELSE IF n = <<BS>> THEN <<DQ, BS, BS, DQ>>
    ELSE n

SeqsUpTo(S, lo, hi) == UNION {[1..n -> S] : n \in lo..hi}

DistinctNames(q) == \A i, j \in 1..Len(q) : i # j => q[i].name # q[j].name

Indented == [e |-> 2, z |-> 2, c |-> FALSE]
Flush == [e |-> 0, z |-> 0, c |-> FALSE]

\* a column: its name line, then its description line if text # <<"absent">>;
\* order "desc_first" writes the description key first
RenderCol(c, s, lay) ==
    LET gap == IF lay.c THEN <<Comment(0), Blank>> ELSE <<>>
    IN  IF c.desc = <<"absent">> THEN <<Item(s, "name", NameText(c.name))>> \o gap
        ELSE IF c.order = "name_first"
        THEN <<Item(s, "name", NameText(c.name))>> \o gap
             \o <<KV(s + 2, "description", c.desc)>>
        ELSE <<Item(s, "description", c.desc)>> \o gap
             \o <<KV(s + 2, "name", NameText(c.name))>>

\* a model or a table: its name line, then "columns:" and the columns
RenderOwner(o, s, lay) ==
    <<Item(s, "name", NameText(o.name))>>
    \o (IF o.cols = <<>> THEN <<>>
        ELSE <<KeyLine(s + 2, "columns")>>
             \o Flatten([i \in 1..Len(o.cols) |->
                           RenderCol(o.cols[i], s + 2 + lay.z, lay)]))

RenderModels(os, lay) ==
    <<KeyLine(0, "models")>>
    \o Flatten([i \in 1..Len(os) |-> RenderOwner(os[i], lay.e, lay)])

\* a source: its name line, "tables:" and the tables
RenderSource(src, lay) ==
    <<Item(lay.e, "name", NameText(src.name)), KeyLine(lay.e + 2, "tables")>>
    \o Flatten([i \in 1..Len(src.tables) |->
                  RenderOwner(src.tables[i], lay.e + 2 + lay.z, lay)])

RenderSources(ss, lay) ==
    <<KeyLine(0, "sources")>>
    \o Flatten([i \in 1..Len(ss) |-> RenderSource(ss[i], lay)])

ModelLayouts ==
    {Indented, [Indented EXCEPT !.c = TRUE], [Indented EXCEPT !.z = 0], Flush}

SourceLayouts == {Indented, Flush}

\* the documents the patcher is run on
PatchCols ==
    [name : Names, desc : {<<"absent">>, <<"q">>}, order : {"name_first"}]
    \cup [name : {<<"a">>}, desc : {<<"q">>}, order : {"desc_first"}]

\* in the sources every column is named b, as the second source or table is
SourceCols == [name : {<<"b">>}, desc : {<<"absent">>, <<"q">>}, order : {"name_first"}]

EscCols == [name : {<<"a">>}, desc : {<<"absent">>, <<"q">>}, order : {"name_first"}]

ColLists(C, n) == {q \in SeqsUpTo(C, 0, n) : DistinctNames(q)}

\* up to n owners with names of N, the first named first, of up to k columns
OwnerLists(N, first, C, n, k) ==
    {q \in SeqsUpTo([name : N, cols : ColLists(C, k)], 1, n) :
        DistinctNames(q) /\ q[1].name = first}

\* up to n models in the usual layout, one model in every layout
PatchModelDocs(n, k) ==
    {RenderModels(os, Indented) : os \in OwnerLists(Names, <<"a">>, PatchCols, n, k)}
    \cup {RenderModels(os, lay) :
             os \in OwnerLists(Names, <<"a">>, PatchCols, 1, k), lay \in ModelLayouts}

\* one source of up to n tables, or up to n sources of one table named a
SourceLists(n) ==
    {<<[name |-> s, tables |-> ts]>> :
        s \in Names, ts \in OwnerLists(Names, <<"a">>, SourceCols, n, 1)}
    \cup {q \in SeqsUpTo([name : Names,
                           tables : OwnerLists(Names, <<"a">>, SourceCols, 1, 1)],
                          2, n) :
             DistinctNames(q)}

PatchSourceDocs(n) ==
    {RenderSources(ss, lay) : ss \in SourceLists(n), lay \in SourceLayouts}

\* up to n models named by EscNames, each of at most one column
EscModelDocs(n) ==
    {RenderModels(os, Indented) : os \in OwnerLists(EscNames, <<BS>>, EscCols, n, 1)}

\* the value written by the fixes of the patcher runs: it holds a quote
PatchDesc == <<"n", DQ>>

ModelFixes == {Fix("model", p, None, c, PatchDesc) : p \in Names, c \in Names}

SourceFixes == {Fix("source", p, t, <<"b">>, PatchDesc) : p \in Names, t \in Names}

EscFixes == {Fix("model", p, None, <<"a">>, PatchDesc) : p \in EscNames}

\* a file no fix is for
Bystander == RenderModels(<<[name |-> <<"a">>, cols |-> <<>>]>>, Indented)

\* the documents of the full runs: one column per model, the i-th model
\* named by i letters; the second description holds a quote, the third a
\* backslash
RunDescs == {<<"absent">>, <<"q">>, <<"n", DQ>>, <<BS, "n">>}

RunCols ==
    [name : {<<"a">>}, desc : RunDescs, order : {"name_first"}]
    \cup [name : {<<"b">>}, desc : {<<"q">>}, order : {"name_first"}]

\* the column of every model after the second
Filler == [name |-> <<"a">>, desc |-> <<"q">>, order |-> "name_first"]

\* the columns of up to n models: the first two vary, the others repeat Filler
RunColumns(n) ==
    [1..1 -> RunCols]
    \cup {cs \o [i \in 1..k |-> Filler] : cs \in [1..2 -> RunCols], k \in 0..(n - 2)}

EntryName(i) == [j \in 1..i |-> "m"]

RunOwners(cs) == [i \in 1..Len(cs) |-> [name |-> EntryName(i), cols |-> <<cs[i]>>]]

\* a model whose "columns:" key has no value after a well-formed model
WalkErrorDoc ==
    RenderModels(<<[name |-> <<"m">>,
                    cols |-> <<[name |-> <<"a">>, desc |-> <<"q">>,
                                order |-> "name_first"]>>]>>, Indented)
    \o <<Item(2, "name", <<"m", "m">>), KeyLine(4, "columns")>>

\* a double-quoted scalar that is not closed
LoadErrorDoc ==
    RenderModels(<<[name |-> <<"m">>,
                    cols |-> <<[name |-> <<"a">>, desc |-> <<DQ, "q">>,
                                order |-> "name_first"]>>]>>, Indented)

RunDocs(n) ==
    {RenderModels(RunOwners(cs), Indented) : cs \in RunColumns(n)}
    \cup {RenderModels(RunOwners(cs), Flush) : cs \in [1..1 -> RunCols]}
    \cup {WalkErrorDoc, LoadErrorDoc}

\* the documents of the files after the second
TailDocs ==
    {RenderModels(RunOwners(<<c>>), Indented) :
        c \in [name : {<<"a">>}, desc : {<<"absent">>, <<"q">>}, order : {"name_first"}]}

\* the trees of n files of up to k models
RunTrees(n, k) ==
    {[f \in 1..n |-> IF f = 1 THEN d[1] ELSE IF f = 2 THEN d[2] ELSE t[f]] :
        d \in [1..2 -> RunDocs(k)], t \in [3..n -> TailDocs]}

-----
(* State *)

NoEdit ==
    [op |-> "none", fix |-> Fix("", None, None, None, <<>>), before |-> <<>>,
     col_idx |-> -1, at |-> -1]

ScanIdle ==
    [lines |-> <<>>, parent_idx |-> 1, key |-> "", name |-> None,
     done |-> FALSE, result |-> -1]

EscIdle == [s |-> <<>>, done |-> FALSE, text |-> <<>>, back |-> None]

\* the locals of update_file before any call
PatcherIdle ==
    /\ cur = 0 /\ fixes = <<>> /\ lines = <<>> /\ modified = FALSE
    /\ last = NoEdit /\ nOk = 0 /\ tried = 0 /\ written = {} /\ ui = 1

\* the locals of check_and_fix at its start
RunStart ==
    /\ run = 1 /\ fi = 1 /\ col_map = <<>> /\ failed = {}
    /\ fixes_by_file = <<>> /\ inconsistent_count = 0 /\ best = <<>>

patcherVars == <<cur, fixes, lines, modified, last, nOk, tried>>
runVars == <<run, fi, col_map, failed, fixes_by_file, inconsistent_count, best>>

-----------------------------------------------------------------------------
(* check_and_fix *)

\* one iteration of "for file_path in files": load, walk, except
CollectFile ==
    /\ pc = "collect"
    /\ LET r == Walk(disk[fi], fi)
       IN  /\ col_map' = col_map \o r.occs
           /\ failed' = IF r.err THEN failed \cup {fi} ELSE failed
    /\ fi' = fi + 1
    /\ pc' = IF fi = NFiles THEN "analyze" ELSE "collect"
    /\ UNCHANGED <<disk, fix_mode, run, fixes_by_file, inconsistent_count, best,
                   written, ui, scan, esc>>
    /\ UNCHANGED patcherVars

\* the loop over col_map and the report
Analyze ==
    /\ pc = "analyze"
    /\ fixes_by_file' = FixesByFile(col_map, fix_mode)
    /\ best' = BestReport(col_map)
    /\ inconsistent_count' =
          Cardinality({i \in 1..Len(ColKeys(col_map)) :
                          Inconsistent(col_map, ColKeys(col_map)[i])})
    /\ ui' = 1
    /\ pc' = IF fix_mode /\ fixes_by_file' # <<>> THEN "apply" ELSE "done"
    /\ UNCHANGED <<disk, fix_mode, run, fi, col_map, failed, written, scan, esc>>
    /\ UNCHANGED patcherVars

\* update_file is called: the file is read
OpenFile ==
    /\ pc = "apply"
    /\ ui <= Len(fixes_by_file)
    /\ cur' = fixes_by_file[ui].file
    /\ fixes' = fixes_by_file[ui].fixes
    /\ lines' = disk[fixes_by_file[ui].file]
    /\ modified' = FALSE
    /\ last' = NoEdit
    /\ nOk' = 0
    /\ tried' = 0
    /\ pc' = "fixing"
    /\ UNCHANGED <<disk, fix_mode, written, ui, scan, esc>>
    /\ UNCHANGED runVars

\* one iteration of "for fix in fixes"
ApplyFix ==
    /\ pc = "fixing"
    /\ fixes # <<>>
    /\ LET r == FixResult(lines, Head(fixes))
       IN  /\ lines' = r.lines
           /\ modified' = (modified \/ r.op # "miss")
           /\ nOk' = IF r.op # "miss" THEN nOk + 1 ELSE nOk
           /\ last' = [op |-> r.op, fix |-> Head(fixes), before |-> lines,
                       col_idx |-> r.col_idx, at |-> r.at]
    /\ fixes' = Tail(fixes)
    /\ tried' = tried + 1
    /\ UNCHANGED <<disk, fix_mode, pc, written, ui, cur, scan, esc>>
    /\ UNCHANGED runVars

\* the lines written back whether or not a fix succeeded
WriteBackAlways ==
    /\ pc = "fixing"
    /\ fixes = <<>>
    /\ disk' = [disk EXCEPT ![cur] = lines]
    /\ written' = written \cup {cur}
    /\ ui' = ui + 1
    /\ pc' = IF ui = Len(fixes_by_file) THEN "done" ELSE "apply"
    /\ UNCHANGED <<fix_mode, scan, esc>>
    /\ UNCHANGED patcherVars
    /\ UNCHANGED runVars

\* "if modified: write the lines back", and update_file returns
WriteBack ==
    /\ pc = "fixing"
    /\ fixes = <<>>
    /\ IF modified
       THEN disk' = [disk EXCEPT ![cur] = lines] /\ written' = written \cup {cur}
       ELSE UNCHANGED <<disk, written>>
    /\ ui' = ui + 1
    /\ pc' = IF ui = Len(fixes_by_file) THEN "done" ELSE "apply"
    /\ UNCHANGED <<fix_mode, scan, esc>>
    /\ UNCHANGED patcherVars
    /\ UNCHANGED runVars

\* check_and_fix is run again on the files the fix run left
Rerun ==
    /\ pc = "done"
    /\ run = 1
    /\ fix_mode
    /\ run' = 2
    /\ fi' = 1
    /\ col_map' = <<>>
    /\ failed' = {}
    /\ fixes_by_file' = <<>>
    /\ inconsistent_count' = 0
    /\ best' = <<>>
    /\ written' = {}
    /\ ui' = 1
    /\ pc' = "collect"
    /\ UNCHANGED <<disk, fix_mode, scan, esc>>
    /\ UNCHANGED patcherVars

Init ==
    /\ disk \in RunTrees(NFiles, MaxEntries)
    /\ fix_mode \in BOOLEAN
    /\ pc = "collect"
    /\ RunStart
    /\ PatcherIdle
    /\ scan = ScanIdle
    /\ esc = EscIdle

Next == CollectFile \/ Analyze \/ OpenFile \/ ApplyFix \/ WriteBack \/ Rerun

Spec == Init /\ [][Next]_vars

-----------------------------------------------------------------------------
(* update_file on one file with an arbitrary batch of fixes *)

PatchInputs(n, k, b) ==
    {<<d, fs>> : d \in PatchModelDocs(n, k), fs \in SeqsUpTo(ModelFixes, 0, b)}
    \cup {<<d, fs>> : d \in PatchSourceDocs(n), fs \in SeqsUpTo(SourceFixes, 0, b)}
    \cup {<<d, fs>> : d \in EscModelDocs(n), fs \in SeqsUpTo(EscFixes, 0, b)}

InitPatch ==
    /\ \E in \in PatchInputs(MaxEntries, MaxCols, MaxFixes) :
          /\ disk = [f \in 1..NFiles |-> IF f = 1 THEN in[1] ELSE Bystander]
          /\ fixes_by_file = <<[file |-> 1, fixes |-> in[2]]>>
    /\ fix_mode = TRUE
    /\ pc = "apply"
    /\ run = 1 /\ fi = 1 /\ col_map = <<>> /\ failed = {}
    /\ inconsistent_count = 0 /\ best = <<>>
    /\ PatcherIdle
    /\ scan = ScanIdle
    /\ esc = EscIdle

NextPatch == OpenFile \/ ApplyFix \/ WriteBack

SpecPatch == InitPatch /\ [][NextPatch]_vars

-----------------------------------------------------------------------------
(* find_child_block on arbitrary line buffers *)

\* lines indented by up to m: the key, the name a (in quotes at the deepest
\* indentation), another name, a blank line and a comment
ScanLineSet(m) ==
    {KeyLine(i, "columns") : i \in 0..m}
    \cup {Item(i, "name", v) : i \in 0..m, v \in {<<"a">>, <<"b">>}}
    \cup {Item(m, "name", <<DQ, "a", DQ>>), Blank, Comment(0)}

\* the calls with a key, a name or both, on buffers of up to n lines
ScanCalls(n, m) ==
    {[lines |-> ls, parent_idx |-> p, key |-> a[1], name |-> a[2],
      done |-> FALSE, result |-> -1] :
        ls \in SeqsUpTo(ScanLineSet(m), 0, n), p \in 1..(n + 1),
        a \in {<<"columns", None>>, <<"", <<"a">>>>, <<"columns", <<"a">>>>}}

InitScan ==
    /\ scan \in {c \in ScanCalls(MaxScanLen, MaxScanInd) :
                    c.parent_idx <= Len(c.lines) + 1}
    /\ disk = <<>> /\ fix_mode = FALSE /\ pc = "scan"
    /\ RunStart
    /\ PatcherIdle
    /\ esc = EscIdle

\* the call returns
Scan ==
    /\ pc = "scan"
    /\ ~scan.done
    /\ scan' = [scan EXCEPT !.done = TRUE,
                            !.result = find_child_block(scan.lines, scan.parent_idx,
                                                        scan.key, scan.name)]
    /\ UNCHANGED <<disk, fix_mode, pc, written, ui, esc>>
    /\ UNCHANGED patcherVars
    /\ UNCHANGED runVars

SpecScan == InitScan /\ [][Scan]_vars

-----------------------------------------------------------------------------
(* a description written by update_file and read back by the loader *)

DescChars == {"q", "n", DQ, BS}

InitEsc ==
    /\ \E s \in SeqsUpTo(DescChars, 0, MaxDescLen) : esc = [EscIdle EXCEPT !.s = s]
    /\ disk = <<>> /\ fix_mode = FALSE /\ pc = "escape"
    /\ RunStart
    /\ PatcherIdle
    /\ scan = ScanIdle

\* the value is written as new_desc_str and the line is loaded again
WriteAndLoad ==
    /\ pc = "escape"
    /\ ~esc.done
    /\ esc' = [esc EXCEPT !.done = TRUE,
                          !.text = QuoteDesc(esc.s),
                          !.back = ScalarOf(QuoteDesc(esc.s))]
    /\ UNCHANGED <<disk, fix_mode, pc, written, ui, scan>>
    /\ UNCHANGED patcherVars
    /\ UNCHANGED runVars

SpecEsc == InitEsc /\ [][WriteAndLoad]_vars

-----------------------------------------------------------------------------
(* Claims about find_child_block (SpecScan) and the escaping (SpecEsc) *)

\* what the call was asked to find, as text
Matches(line, key, name) ==
    \/ key # "" /\ StartsWithKey(line, key)
    \/ Truthy(name) /\ IsNameItem(line) /\ Unquote(line.val) = name

\* C7: find_child_block returns -1 or an index after the parent whose line
\* matches the key or name asked for, such that it and every line between
\* the parent and it that is neither blank nor a comment are indented deeper
\* than the parent; so no match behind the end of the block is returned
BlockScanBoundary ==
    scan.done =>
        \/ scan.result = -1
        \/ /\ scan.result > scan.parent_idx
           /\ scan.result <= Len(scan.lines)
           /\ Matches(scan.lines[scan.result], scan.key, scan.name)
           /\ \A j \in (scan.parent_idx + 1)..scan.result :
                 ~Skipped(scan.lines[j]) =>
                    get_indent(scan.lines[j]) > get_indent(scan.lines[scan.parent_idx])

\* a call that reports not-found although a line behind the block's end matches
BlockScanBoundaryWitness ==
    /\ scan.done
    /\ scan.result = -1
    /\ \E j \in 1..Len(scan.lines), b \in 1..Len(scan.lines) :
          /\ scan.parent_idx < b /\ b < j
          /\ ~Skipped(scan.lines[b])
          /\ get_indent(scan.lines[b]) <= get_indent(scan.lines[scan.parent_idx])
          /\ Matches(scan.lines[j], scan.key, scan.name)
          /\ get_indent(scan.lines[j]) > get_indent(scan.lines[scan.parent_idx])

\* C6: a description that holds a double quote, written as new_desc_str and
\* read back as a double-quoted scalar, is the original string
EscapingRoundTrip ==
    (esc.done /\ \E i \in 1..Len(esc.s) : esc.s[i] = DQ) => esc.back = esc.s

-----------------------------------------------------------------------------
(* Claims about check_and_fix (Spec) *)

Analyzed == pc \in {"apply", "fixing", "done"}

OccsAt(c, d) == {i \in 1..Len(col_map) : col_map[i].col = c /\ col_map[i].desc = d}

ColsSeen == {col_map[i].col : i \in 1..Len(col_map)}

DescsSeen(c) == {col_map[i].desc : i \in {j \in 1..Len(col_map) : col_map[j].col = c}}

\* more than one distinct description, one of them non-empty
NeedsWork(c) == Cardinality(DescsSeen(c)) > 1 /\ DescsSeen(c) # {<<>>}

Reported(c) == {best[i].best_desc : i \in {j \in 1..Len(best) : best[j].col = c}}

\* C1: after a run in fix mode, the next run finds no inconsistent column
\* and schedules no edit
FixRunIdempotent ==
    (run = 2 /\ Analyzed) => (inconsistent_count = 0 /\ fixes_by_file = <<>>)

\* C10: no occurrence of col_map comes from a file whose load or walk raised
FailingFileExcluded ==
    \A i \in 1..Len(col_map) : col_map[i].file \notin failed

Scheduled ==
    Flatten([i \in 1..Len(fixes_by_file) |->
               [j \in 1..Len(fixes_by_file[i].fixes) |->
                  [file |-> fixes_by_file[i].file, fix |-> fixes_by_file[i].fixes[j]]]])

\* the occurrences that differ from the description chosen for their column
Differing ==
    {i \in 1..Len(col_map) :
        NeedsWork(col_map[i].col) /\ col_map[i].desc \notin Reported(col_map[i].col)}

EditFor(i) ==
    [file |-> col_map[i].file,
     fix |-> [type |-> col_map[i].type, parent |-> col_map[i].parent,
              table |-> col_map[i].table, col |-> col_map[i].col,
              new_desc |-> CHOOSE b \in Reported(col_map[i].col) : TRUE]]

\* C4: in fix mode the edits scheduled are one per occurrence whose
\* description differs from the one chosen for its column (empty ones
\* included), with the occurrence's file, kind, parent and table and the
\* chosen description; nothing else is scheduled
EditSet ==
    (Analyzed /\ fix_mode) =>
        /\ Len(Scheduled) = Cardinality(Differing)
        /\ \A i \in Differing :
              Cardinality({k \in 1..Len(Scheduled) : Scheduled[k] = EditFor(i)})
                 = Cardinality({j \in Differing : EditFor(j) = EditFor(i)})

\* edits for an occurrence without description and for one with another
\* description, while an occurrence holds the chosen one and a second
\* column has a single description
EditSetWitness ==
    /\ Analyzed /\ fix_mode
    /\ \E i, j \in Differing :
          /\ col_map[i].desc = <<>> /\ col_map[j].desc # <<>>
          /\ col_map[i].col = col_map[j].col
    /\ \E c \in ColsSeen : ~NeedsWork(c)

-----------------------------------------------------------------------------
(* Claims about update_file (SpecPatch) *)

Edited == last.op \in {"replace", "insert"}

\* new_desc_str as the claims word it: the value in double quotes, each
\* double quote of it after a backslash
Quoted(v) ==
    <<DQ>> \o Flatten([i \in 1..Len(v) |-> IF v[i] = DQ THEN <<BS, DQ>> ELSE <<v[i]>>])
    \o <<DQ>>

\* after differs from before by the one line at index i
ReplacedAt(before, after, i) ==
    /\ Len(after) = Len(before)
    /\ i \in 1..Len(before)
    /\ \A j \in 1..Len(before) : j # i => after[j] = before[j]

\* after is before with one line more, at index i
InsertedAt(before, after, i) ==
    /\ Len(after) = Len(before) + 1
    /\ i \in 1..Len(after)
    /\ \A j \in 1..Len(before) : before[j] = after[IF j < i THEN j ELSE j + 1]

\* C2: a fix that succeeds replaces one line of the buffer or inserts one,
\* every other line keeps its content and order, and no file but the one
\* update_file was called on is written
NonDestructiveScope ==
    /\ last.op = "replace" => ReplacedAt(last.before, lines, last.at)
    /\ last.op = "insert" => InsertedAt(last.before, lines, last.at)
    /\ written \subseteq {1}
    /\ \A f \in 2..NFiles : disk[f] = Bystander
    /\ (pc = "done" /\ 1 \in written) => disk[1] = lines

\* the file written after a line was inserted into a buffer of several lines
NonDestructiveScopeWitness ==
    /\ pc = "done"
    /\ 1 \in written
    /\ last.op = "insert"
    /\ last.at <= Len(last.before)

\* C5: if the block scan under the column's name line finds no description
\* key line, one line is inserted directly after the name line, two spaces
\* deeper, holding the description key and the quoted value; otherwise only
\* the line found is rewritten, its indentation and key as before, and the
\* buffer keeps its length
InsertionVsReplacement ==
    Edited =>
        LET b == last.before
            c == last.col_idx
            d == find_child_block(b, c, "description", None)
        IN  IF d = -1
            THEN lines = SubSeq(b, 1, c)
                         \o <<[ind |-> b[c].ind + 2, dash |-> FALSE,
                               key |-> "description",
                               val |-> Quoted(last.fix.new_desc)]>>
                         \o SubSeq(b, c + 1, Len(b))
            ELSE /\ ReplacedAt(b, lines, d)
                 /\ lines[d] = [b[d] EXCEPT !.val = Quoted(last.fix.new_desc)]
                 /\ b[d].key = "description"

\* a description inserted by the second fix of a batch under a column that
\* is not the last line of the buffer
InsertionVsReplacementWitness ==
    /\ last.op = "insert"
    /\ tried = 2
    /\ last.col_idx < Len(last.before)
    /\ last.before[last.col_idx].ind > 2

\* C8: a fix whose lookup fails leaves the buffer as it was and the fixes
\* after it are attempted; the file is written if and only if a fix of the
\* batch succeeded
LookupMissLocal ==
    /\ last.op = "miss" => lines = last.before
    /\ (pc = "fixing" /\ nOk = 0) => lines = disk[1]
    /\ pc = "done" =>
          /\ tried = Len(fixes_by_file[1].fixes)
          /\ (1 \in written) = (nOk > 0)

\* a batch whose first fix misses and whose second succeeds, and is written
LookupMissLocalWitness ==
    /\ pc = "done"
    /\ tried = 2
    /\ nOk = 1
    /\ Edited
    /\ 1 \in written

\* the columns the collector records under the path of fix in the text ls
Recorded(ls, fix) ==
    LET os == WalkTree(ls, 1).occs
    IN  {os[i].item : i \in {j \in 1..Len(os) :
                                /\ os[j].type = fix.type
                                /\ os[j].parent = fix.parent
                                /\ os[j].table = fix.table
                                /\ os[j].col = fix.col}}

\* C9: the line a fix replaces or inserts is the description line of the
\* column its (kind, parent, table, column) path names in the document,
\* and of no other node; also for a fix that follows an insertion
ExactPosition ==
    Edited =>
        \E t \in Recorded(last.before, last.fix) :
            /\ t = last.col_idx
            /\ Get(lines, t, lines[t].ind + 2, "description") = last.at

\* no name of the text is written with a backslash
EscapeFree(ls) ==
    \A i \in 1..Len(ls) :
        ls[i].key = "name" => \A j \in 1..Len(ls[i].val) : ls[i].val[j] # BS

\* the targeting is exact in every document whose names hold no escape, also
\* for the second fix of a batch that follows an insertion
ExactPositionEscapeFree == EscapeFree(last.before) => ExactPosition

\* the second fix of a batch edits a column below the line the first inserted
ExactPositionEscapeFreeWitness ==
    /\ Edited
    /\ EscapeFree(last.before)
    /\ tried = 2
    /\ Len(last.before) > Len(disk[1])
    /\ \E i \in 1..Len(disk[1]) : last.before[i] # disk[1][i] /\ i < last.col_idx
    /\ pc = "fixing"

====
